---- MODULE Spec2Model ----
(***************************************************************************)
(* Model of the chat-session orchestration (AgentService in src/agents.py, *)
(* ChatStorageService in src/blob_storage_service.py, the REST handlers of *)
(* src/app.py) and of the response normalizer (_parse_response and its     *)
(* helpers in src/agents.py).                                              *)
(*                                                                         *)
(* Session ids and blob names are sequences of one-character strings, so   *)
(* that str.replace, str.split, str.join and the substring test `in` are   *)
(* computed as Python computes them.  Message contents and model replies   *)
(* are TLA+ strings.                                                       *)
(***************************************************************************)
EXTENDS Integers, Sequences, FiniteSets, TLC

VARIABLES
    kernel,              \* self.kernel is set (initialize() has run)
    chat_storage,        \* self.chat_storage: None or Ready
    conversation,        \* self.conversation.messages: sequence of [role, content]
    current_session_id,  \* self.current_session_id
    blobs,               \* the blob container: blob name -> stored chat document
    recency,             \* blob names, most recently modified first (last_modified order)
    pending,             \* process_query calls suspended on the model call (their queries)
    last,                \* the call that completed last and what it returned or raised
    normIn,              \* argument of a direct _parse_response call
    normOut,             \* its outcome
    queries              \* process_query calls made so far

vars == <<kernel, chat_storage, conversation, current_session_id, blobs, recency,
          pending, last, normIn, normOut, queries>>

sessionVars == <<kernel, chat_storage, conversation, current_session_id, blobs, recency,
                 pending, last, queries>>

normVars == <<normIn, normOut>>

-----------------------------------------------------------------------------
(* Bounds of the model *)

\* most process_query calls made in a run of the model
MaxQueries == 1
\* most process_query calls suspended on the model call at once
MaxPending == 1
\* the same two bounds for the chat endpoint taken alone (SpecChat)
MaxChatQueries == 2
MaxInFlight == 2

-----------------------------------------------------------------------------
(* Python string operations on character sequences *)

\* needle in hay
Contains(needle, hay) ==
    \E i \in 1..(Len(hay) - Len(needle) + 1) :
        SubSeq(hay, i, i + Len(needle) - 1) = needle

StartsWith(s, p) == Len(s) >= Len(p) /\ SubSeq(s, 1, Len(p)) = p

\* s.replace(old, new): left to right, non-overlapping; old is not empty
RECURSIVE Replace(_, _, _)
Replace(s, old, new) ==
    IF s = <<>> THEN <<>>
    ELSE IF StartsWith(s, old)
         THEN new \o Replace(SubSeq(s, Len(old) + 1, Len(s)), old, new)
         ELSE <<Head(s)>> \o Replace(Tail(s), old, new)

\* s.split(sep) for a one-character sep: always at least one part
RECURSIVE Split(_, _)
Split(s, sep) ==
    IF ~(\E i \in 1..Len(s) : s[i] = sep) THEN <<s>>
    ELSE LET i == CHOOSE j \in 1..Len(s) : s[j] = sep /\ \A k \in 1..(j - 1) : s[k] # sep
         IN  <<SubSeq(s, 1, i - 1)>> \o Split(SubSeq(s, i + 1, Len(s)), sep)

\* sep.join(parts)
RECURSIVE Join(_, _)
Join(parts, sep) ==
    IF parts = <<>> THEN <<>>
    ELSE IF Len(parts) = 1 THEN parts[1]
    ELSE parts[1] \o sep \o Join(Tail(parts), sep)

DotJson == <<".", "j", "s", "o", "n">>
ChatSessionPrefix == <<"c", "h", "a", "t", "_", "s", "e", "s", "s", "i", "o", "n", "_">>

-----------------------------------------------------------------------------
(* Session names and ids *)

\* __init__: self.current_session_id = "main_session"
MainSession == <<"m", "a", "i", "n", "_", "s", "e", "s", "s", "i", "o", "n">>

\* session_name absent: create_new_session falls back to f"Chat {timestamp}"
NoName == <<>>
\* datetime.now().strftime("%m/%d %H:%M"), one reading of the clock
TimestampLabel == <<"1", "1", "/", "0", "1", " ", "0", "9", ":", "3", "0">>
DefaultSessionName == <<"C", "h", "a", "t", " ">> \o TimestampLabel

MainSessionSpaced == <<"m", "a", "i", "n", " ", "s", "e", "s", "s", "i", "o", "n">>
Chat == <<"C", "h", "a", "t">>
Nonexistent == <<"z", "z">>

MyChat == <<"M", "y", " ", "C", "h", "a", "t">>
My_Chat == <<"M", "y", "_", "C", "h", "a", "t">>
PlanA == <<"Q", "3", "/", "P", "l", "a", "n", " ", "A">>
\* names a caller passes to create_new_session
SessionNames == {NoName, MainSessionSpaced}
\* names the callers of SpecNames pass
MoreSessionNames == SessionNames \cup {MyChat, PlanA}
\* ids a caller passes to switch_session
SwitchIds == {MainSession, Chat}

\* session_name.replace(" ", "_").replace("/", "_")
SanitizeMutant(name) == Replace(name, <<" ">>, <<"_">>)
Sanitize(name) == Replace(Replace(name, <<" ">>, <<"_">>), <<"/">>, <<"_">>)

\* blob_name = f"{session_id}.json"
BlobName(session_id) == session_id \o DotJson

\* _load_most_recent_session: the session id recovered from a blob name
DeriveSessionId(blob_name) ==
    LET session_parts == Split(Replace(Replace(blob_name, ChatSessionPrefix, <<>>),
                                       DotJson, <<>>), "_")
    IN  IF Len(session_parts) > 2
        THEN Join(SubSeq(session_parts, 1, Len(session_parts) - 2), <<"_">>)
        ELSE session_parts[1]

-----------------------------------------------------------------------------
(* Transcript *)

None == "None"
Ready == "ChatStorageService"

\* The three copies of the system prompt differ in their text.
SysPromptInit == "system prompt (initialize)"
SysPromptCreate == "system prompt (create_new_session)"
SysPromptSwitch == "system prompt (switch_session)"

Msg(role, content) == [role |-> role, content |-> content]

\* ChatHistory() followed by add_system_message(prompt)
FreshConversation(prompt) == <<Msg("system", prompt)>>

\* str(message.role): message.role is a member of the str-mixin enum AuthorRole
\* (has_user_messages reads its .value), and str() of such a member is
\* "AuthorRole.<NAME>", not the value.
RoleStr(role) ==
    CASE role = "system" -> "AuthorRole.SYSTEM"
      [] role = "user" -> "AuthorRole.USER"
      [] role = "assistant" -> "AuthorRole.ASSISTANT"

\* str.lower() on the role strings a stored document can hold
StrLower(s) ==
    CASE s = "AuthorRole.SYSTEM" -> "authorrole.system"
      [] s = "AuthorRole.USER" -> "authorrole.user"
      [] s = "AuthorRole.ASSISTANT" -> "authorrole.assistant"
      [] OTHER -> s

\* has_user_messages: some message's role value, lower-cased, is not 'system'
\* (the mutant reads str(msg.role) in place of msg.role.value)
HasUserMessagesMutant(conv) ==
    /\ conv # <<>>
    /\ \E i \in 1..Len(conv) : StrLower(RoleStr(conv[i].role)) # "system"
HasUserMessages(conv) ==
    /\ conv # <<>>
    /\ \E i \in 1..Len(conv) : conv[i].role # "system"

\* AgentService.save_chat_history: the conversation in serializable form
ChatData(conv) ==
    [i \in 1..Len(conv) |-> [role |-> RoleStr(conv[i].role), content |-> conv[i].content]]

\* The replay loop of switch_session and _load_most_recent_session: each stored
\* message goes through the append operation of its lower-cased role; a message
\* whose role is none of the three is skipped.
RECURSIVE Replay(_)
Replay(chat_history) ==
    IF chat_history = <<>> THEN <<>>
    ELSE LET role == StrLower(Head(chat_history).role)
             rest == Replay(Tail(chat_history))
         IN  IF role \in {"system", "user", "assistant"}
             THEN <<Msg(role, Head(chat_history).content)>> \o rest
             ELSE rest

-----------------------------------------------------------------------------
(* Blob container *)

Store == [blobs |-> blobs, recency |-> recency]

RemoveName(seq, name) == SelectSeq(seq, LAMBDA n : n # name)

\* ChatStorageService.save_chat_history: upload_blob(..., overwrite=True) under
\* f"{session_id}.json".  (An empty session_id would get a timestamp name; no id
\* of the model is empty.)
Upload(st, chat_data, session_id) ==
    LET name == BlobName(session_id)
        chat_document == [session_id |-> session_id,
                          message_count |-> Len(chat_data),
                          chat_history |-> chat_data]
    IN  [blobs |-> (name :> chat_document) @@ st.blobs,
         recency |-> <<name>> \o RemoveName(st.recency, name)]

SaveChatHistoryMutant(st, storage, conv, session_id, backendOk) ==
    IF ~backendOk
    THEN [ok |-> FALSE, store |-> st]
    ELSE [ok |-> TRUE, store |-> Upload(st, ChatData(conv), session_id)]
\* AgentService.save_chat_history with handle `storage`: raises (ok = FALSE) when
\* the handle is None or the upload fails (backendOk = FALSE), and leaves the
\* container alone then.
SaveChatHistory(st, storage, conv, session_id, backendOk) ==
    IF storage = None \/ ~backendOk
    THEN [ok |-> FALSE, store |-> st]
    ELSE [ok |-> TRUE, store |-> Upload(st, ChatData(conv), session_id)]

\* list_chat_sessions: blob names sorted by last_modified, newest first
ListChatSessions(st) == st.recency

-----------------------------------------------------------------------------
(* Response normalizer: Python values                                      *)
(*                                                                         *)
(* A Python value is a record whose field k is its type: "none", "str",    *)
(* "bool", "list", "dict", or "other" (a number or any other object).      *)
(* str is str(value); a list has its items; a dict has d, the function     *)
(* from its keys to their values, and dumps, what json.dumps(value,        *)
(* indent=2) yields: its text, or the message of the TypeError it raises.  *)
(* The results of the library calls on strings (re.search, re.sub,         *)
(* json.loads) are tables over the replies of the model.                   *)

\* longest list reply built from ListItemPool
MaxListLen == 2

NoMatch == "<no match>"
PyNone == [k |-> "none", str |-> "None"]
PyStr(s) == [k |-> "str", str |-> s]
PyTrue == [k |-> "bool", str |-> "True"]
PyFalse == [k |-> "bool", str |-> "False"]
PyBool(b) == IF b THEN PyTrue ELSE PyFalse
PyList(items) == [k |-> "list", items |-> items]

\* In the string literals ~~~ stands for the fence marker of three backquotes.
ReplyFencedJson == "~~~json\n{\"content\":\"hi\",\"metadata\":{\"userstory\":true}}\n~~~"
ReplyUserStory == "As a user, I want to log in so that I can access my account."
ReplyOddMetadata == "{\"content\":\"hi\",\"metadata\":{\"userstory\":\"yes\",\"extra\":1}}"
ReplyProseThenJson == "Here: {\"content\":\"hi\",\"metadata\":{\"userstory\":true}}"
ReplyBigInt == "{\"content\":\"x\",\"n\":<4301 digits>}"
ReplyDeepNesting == "{\"content\":\"x\",\"a\":<100000 nested lists>}"
ReplyPlainFence == "~~~\n{\"content\":\"hello\"}\n~~~"
ReplyFlatObjectInProse == "Result: {\"content\":\"done\"} ok"
ReplyNoContentKey == "{\"metadata\":{\"devtask\":true}}"
ReplyNullContent == "{\"content\":null,\"metadata\":\"none\"}"
ReplyEmptyObject == "{}"
ReplyJsonArray == "[1,2]"
ReplyBrokenFence == "~~~json\n{\"content\": broken}\n~~~"
ReplyClarify == "Please provide the project name."
ReplyEmpty == ""
ReplyListContent == "{\"content\":[\"a\",{\"content\":\"b\"},3]}"
ReplyDictContent == "{\"content\":{\"text\":\"t\"},\"metadata\":{\"testcase\":true}}"
ReplyTestCase == "Test case: given a user when they log in then they see the board"
ReplySaveRequest == "Shall I save this to Azure Boards?"
ReplyDevTask == "Dev task: implementation of the login form"
ReplyStoryEmptyObject == "User story draft:\n~~~json\n{}\n~~~"

ReplyStrings ==
    {ReplyFencedJson,
     ReplyUserStory,
     ReplyOddMetadata,
     ReplyProseThenJson,
     ReplyBigInt,
     ReplyDeepNesting,
     ReplyPlainFence,
     ReplyFlatObjectInProse,
     ReplyNoContentKey,
     ReplyNullContent,
     ReplyEmptyObject,
     ReplyJsonArray,
     ReplyBrokenFence,
     ReplyClarify,
     ReplyEmpty,
     ReplyListContent,
     ReplyDictContent,
     ReplyTestCase,
     ReplySaveRequest,
     ReplyDevTask,
     ReplyStoryEmptyObject}

RawNone ==
    [k |-> "none", str |-> "None"]
RawNumber ==
    [k |-> "other", str |-> "42"]
RawTrue ==
    [k |-> "bool", str |-> "True"]
RawDictContent ==
    [k |-> "dict", str |-> "{'content': 'inner'}", dumps |-> [raises |-> FALSE, text |-> "{\n  \"content\": \"inner\"\n}"], d |-> ("content" :> [k |-> "str", str |-> "inner"])]
RawDictDeep ==
    [k |-> "dict", str |-> "{'content': {'content': 'deep'}}", dumps |-> [raises |-> FALSE, text |-> "{\n  \"content\": {\n    \"content\": \"deep\"\n  }\n}"], d |-> ("content" :> [k |-> "dict", str |-> "{'content': 'deep'}", dumps |-> [raises |-> FALSE, text |-> "{\n  \"content\": \"deep\"\n}"], d |-> ("content" :> [k |-> "str", str |-> "deep"])])]
RawDictNoContent ==
    [k |-> "dict", str |-> "{'k': 1}", dumps |-> [raises |-> FALSE, text |-> "{\n  \"k\": 1\n}"], d |-> ("k" :> [k |-> "other", str |-> "1"])]
RawDictNullContent ==
    [k |-> "dict", str |-> "{'content': None}", dumps |-> [raises |-> FALSE, text |-> "{\n  \"content\": null\n}"], d |-> ("content" :> [k |-> "none", str |-> "None"])]
RawDictListContent ==
    [k |-> "dict", str |-> "{'content': ['a', {'k': 1}]}", dumps |-> [raises |-> FALSE, text |-> "{\n  \"content\": [\n    \"a\",\n    {\n      \"k\": 1\n    }\n  ]\n}"], d |-> ("content" :> [k |-> "list", str |-> "['a', {'k': 1}]", items |-> <<[k |-> "str", str |-> "a"], [k |-> "dict", str |-> "{'k': 1}", dumps |-> [raises |-> FALSE, text |-> "{\n  \"k\": 1\n}"], d |-> ("k" :> [k |-> "other", str |-> "1"])]>>])]
RawDictUnserializable ==
    [k |-> "dict", str |-> "{'k': set()}", dumps |-> [raises |-> TRUE, text |-> "Object of type set is not JSON serializable"], d |-> ("k" :> [k |-> "other", str |-> "set()"])]
RawListUnserializable ==
    [k |-> "list", items |-> <<[k |-> "str", str |-> "a"], [k |-> "dict", str |-> "{'k': set()}", dumps |-> [raises |-> TRUE, text |-> "Object of type set is not JSON serializable"], d |-> ("k" :> [k |-> "other", str |-> "set()"])]>>]
RawMixedList ==
    [k |-> "list", items |-> <<[k |-> "str", str |-> "a"], [k |-> "dict", str |-> "{'content': 'b'}", dumps |-> [raises |-> FALSE, text |-> "{\n  \"content\": \"b\"\n}"], d |-> ("content" :> [k |-> "str", str |-> "b"])], [k |-> "dict", str |-> "{'k': 1}", dumps |-> [raises |-> FALSE, text |-> "{\n  \"k\": 1\n}"], d |-> ("k" :> [k |-> "other", str |-> "1"])], [k |-> "other", str |-> "3"]>>]

ListItemPool ==
    {[k |-> "str", str |-> "a"],
     [k |-> "dict", str |-> "{'content': 'b'}", dumps |-> [raises |-> FALSE, text |-> "{\n  \"content\": \"b\"\n}"], d |-> ("content" :> [k |-> "str", str |-> "b"])],
     [k |-> "dict", str |-> "{'k': 1}", dumps |-> [raises |-> FALSE, text |-> "{\n  \"k\": 1\n}"], d |-> ("k" :> [k |-> "other", str |-> "1"])],
     [k |-> "other", str |-> "3"],
     [k |-> "str", str |-> "Test case: login"]}

\* re.search(r'~~~json\s*(\{.*?\})\s*~~~', s, DOTALL | IGNORECASE): group(1), or NoMatch
SearchJsonFence(s) ==
    CASE s = ReplyFencedJson -> "{\"content\":\"hi\",\"metadata\":{\"userstory\":true}}"
      [] s = ReplyBrokenFence -> "{\"content\": broken}"
      [] s = ReplyStoryEmptyObject -> ReplyEmptyObject
      [] OTHER -> NoMatch

\* re.search(r'~~~\s*(\{.*?\})\s*~~~', s, DOTALL | IGNORECASE): group(1), or NoMatch
SearchAnyFence(s) ==
    CASE s = ReplyPlainFence -> "{\"content\":\"hello\"}"
      [] OTHER -> NoMatch

\* re.search(r'(\{[^{}]*"content"[^{}]*\})', s, DOTALL | IGNORECASE): group(1), or NoMatch
SearchContentObject(s) ==
    CASE s = ReplyBigInt -> ReplyBigInt
      [] s = ReplyDeepNesting -> ReplyDeepNesting
      [] s = ReplyPlainFence -> "{\"content\":\"hello\"}"
      [] s = ReplyFlatObjectInProse -> "{\"content\":\"done\"}"
      [] s = ReplyNullContent -> ReplyNullContent
      [] s = ReplyBrokenFence -> "{\"content\": broken}"
      [] s = ReplyListContent -> "{\"content\":\"b\"}"
      [] OTHER -> NoMatch

\* re.search(r'(\{.*?"metadata".*?\})', s, DOTALL | IGNORECASE): group(1), or NoMatch
SearchMetadataObject(s) ==
    CASE s = ReplyFencedJson -> "{\"content\":\"hi\",\"metadata\":{\"userstory\":true}"
      [] s = ReplyOddMetadata -> "{\"content\":\"hi\",\"metadata\":{\"userstory\":\"yes\",\"extra\":1}"
      [] s = ReplyProseThenJson -> "{\"content\":\"hi\",\"metadata\":{\"userstory\":true}"
      [] s = ReplyNoContentKey -> "{\"metadata\":{\"devtask\":true}"
      [] s = ReplyNullContent -> ReplyNullContent
      [] s = ReplyDictContent -> "{\"content\":{\"text\":\"t\"},\"metadata\":{\"testcase\":true}"
      [] OTHER -> NoMatch

\* the two re.sub calls of strategy 3 that drop the fence markers
FixFences(s) ==
    CASE s = ReplyFencedJson -> "{\"content\":\"hi\",\"metadata\":{\"userstory\":true}}"
      [] s = ReplyPlainFence -> "\n{\"content\":\"hello\"}"
      [] s = ReplyBrokenFence -> "{\"content\": broken}"
      [] s = ReplyStoryEmptyObject -> "User story draft:json\n{}"
      [] OTHER -> s

\* s.strip().startswith('{') and s.strip().endswith('}')
BraceWrapped(s) ==
    CASE s = ReplyOddMetadata -> TRUE
      [] s = ReplyBigInt -> TRUE
      [] s = ReplyDeepNesting -> TRUE
      [] s = ReplyNoContentKey -> TRUE
      [] s = ReplyNullContent -> TRUE
      [] s = ReplyEmptyObject -> TRUE
      [] s = ReplyListContent -> TRUE
      [] s = ReplyDictContent -> TRUE
      [] s = "{\n  \"k\": 1\n}" -> TRUE
      [] s = "{\n  \"k\": 1\n}\n{\n  \"k\": 1\n}" -> TRUE
      [] s = "{\"content\":\"hi\",\"metadata\":{\"userstory\":true}}" -> TRUE
      [] s = "{\"content\": broken}" -> TRUE
      [] s = "{\"content\":\"hello\"}" -> TRUE
      [] s = "{\"content\":\"done\"}" -> TRUE
      [] s = "{\"content\":\"b\"}" -> TRUE
      [] s = "{\"content\":\"hi\",\"metadata\":{\"userstory\":true}" -> TRUE
      [] s = "{\"content\":\"hi\",\"metadata\":{\"userstory\":\"yes\",\"extra\":1}" -> TRUE
      [] s = "{\"metadata\":{\"devtask\":true}" -> TRUE
      [] s = "{\"content\":{\"text\":\"t\"},\"metadata\":{\"testcase\":true}" -> TRUE
      [] s = "\n{\"content\":\"hello\"}" -> TRUE
      [] OTHER -> FALSE

\* json.loads(s): the parsed value, or the exception raised
JsonLoads(s) ==
    CASE s = ReplyOddMetadata -> [r |-> "ok", v |-> [k |-> "dict", str |-> "{'content': 'hi', 'metadata': {'userstory': 'yes', 'extra': 1}}", dumps |-> [raises |-> FALSE, text |-> "{\n  \"content\": \"hi\",\n  \"metadata\": {\n    \"userstory\": \"yes\",\n    \"extra\": 1\n  }\n}"], d |-> ("content" :> [k |-> "str", str |-> "hi"]) @@ ("metadata" :> [k |-> "dict", str |-> "{'userstory': 'yes', 'extra': 1}", dumps |-> [raises |-> FALSE, text |-> "{\n  \"userstory\": \"yes\",\n  \"extra\": 1\n}"], d |-> ("userstory" :> [k |-> "str", str |-> "yes"]) @@ ("extra" :> [k |-> "other", str |-> "1"])])]]
      [] s = ReplyBigInt -> [r |-> "ValueError"]
      [] s = ReplyDeepNesting -> [r |-> "RecursionError"]
      [] s = ReplyNoContentKey -> [r |-> "ok", v |-> [k |-> "dict", str |-> "{'metadata': {'devtask': True}}", dumps |-> [raises |-> FALSE, text |-> "{\n  \"metadata\": {\n    \"devtask\": true\n  }\n}"], d |-> ("metadata" :> [k |-> "dict", str |-> "{'devtask': True}", dumps |-> [raises |-> FALSE, text |-> "{\n  \"devtask\": true\n}"], d |-> ("devtask" :> [k |-> "bool", str |-> "True"])])]]
      [] s = ReplyNullContent -> [r |-> "ok", v |-> [k |-> "dict", str |-> "{'content': None, 'metadata': 'none'}", dumps |-> [raises |-> FALSE, text |-> "{\n  \"content\": null,\n  \"metadata\": \"none\"\n}"], d |-> ("content" :> [k |-> "none", str |-> "None"]) @@ ("metadata" :> [k |-> "str", str |-> "none"])]]
      [] s = ReplyEmptyObject -> [r |-> "ok", v |-> [k |-> "dict", str |-> "{}", dumps |-> [raises |-> FALSE, text |-> "{}"], d |-> <<>>]]
      [] s = ReplyJsonArray -> [r |-> "ok", v |-> [k |-> "list", str |-> "[1, 2]", items |-> <<[k |-> "other", str |-> "1"], [k |-> "other", str |-> "2"]>>]]
      [] s = ReplyListContent -> [r |-> "ok", v |-> [k |-> "dict", str |-> "{'content': ['a', {'content': 'b'}, 3]}", dumps |-> [raises |-> FALSE, text |-> "{\n  \"content\": [\n    \"a\",\n    {\n      \"content\": \"b\"\n    },\n    3\n  ]\n}"], d |-> ("content" :> [k |-> "list", str |-> "['a', {'content': 'b'}, 3]", items |-> <<[k |-> "str", str |-> "a"], [k |-> "dict", str |-> "{'content': 'b'}", dumps |-> [raises |-> FALSE, text |-> "{\n  \"content\": \"b\"\n}"], d |-> ("content" :> [k |-> "str", str |-> "b"])], [k |-> "other", str |-> "3"]>>])]]
      [] s = ReplyDictContent -> [r |-> "ok", v |-> [k |-> "dict", str |-> "{'content': {'text': 't'}, 'metadata': {'testcase': True}}", dumps |-> [raises |-> FALSE, text |-> "{\n  \"content\": {\n    \"text\": \"t\"\n  },\n  \"metadata\": {\n    \"testcase\": true\n  }\n}"], d |-> ("content" :> [k |-> "dict", str |-> "{'text': 't'}", dumps |-> [raises |-> FALSE, text |-> "{\n  \"text\": \"t\"\n}"], d |-> ("text" :> [k |-> "str", str |-> "t"])]) @@ ("metadata" :> [k |-> "dict", str |-> "{'testcase': True}", dumps |-> [raises |-> FALSE, text |-> "{\n  \"testcase\": true\n}"], d |-> ("testcase" :> [k |-> "bool", str |-> "True"])])]]
      [] s = "{\n  \"k\": 1\n}" -> [r |-> "ok", v |-> [k |-> "dict", str |-> "{'k': 1}", dumps |-> [raises |-> FALSE, text |-> "{\n  \"k\": 1\n}"], d |-> ("k" :> [k |-> "other", str |-> "1"])]]
      [] s = "3" -> [r |-> "ok", v |-> [k |-> "other", str |-> "3"]]
      [] s = "42" -> [r |-> "ok", v |-> [k |-> "other", str |-> "42"]]
      [] s = "{\"content\":\"hi\",\"metadata\":{\"userstory\":true}}" -> [r |-> "ok", v |-> [k |-> "dict", str |-> "{'content': 'hi', 'metadata': {'userstory': True}}", dumps |-> [raises |-> FALSE, text |-> "{\n  \"content\": \"hi\",\n  \"metadata\": {\n    \"userstory\": true\n  }\n}"], d |-> ("content" :> [k |-> "str", str |-> "hi"]) @@ ("metadata" :> [k |-> "dict", str |-> "{'userstory': True}", dumps |-> [raises |-> FALSE, text |-> "{\n  \"userstory\": true\n}"], d |-> ("userstory" :> [k |-> "bool", str |-> "True"])])]]
      [] s = "{\"content\":\"hello\"}" -> [r |-> "ok", v |-> [k |-> "dict", str |-> "{'content': 'hello'}", dumps |-> [raises |-> FALSE, text |-> "{\n  \"content\": \"hello\"\n}"], d |-> ("content" :> [k |-> "str", str |-> "hello"])]]
      [] s = "{\"content\":\"done\"}" -> [r |-> "ok", v |-> [k |-> "dict", str |-> "{'content': 'done'}", dumps |-> [raises |-> FALSE, text |-> "{\n  \"content\": \"done\"\n}"], d |-> ("content" :> [k |-> "str", str |-> "done"])]]
      [] s = "{\"content\":\"b\"}" -> [r |-> "ok", v |-> [k |-> "dict", str |-> "{'content': 'b'}", dumps |-> [raises |-> FALSE, text |-> "{\n  \"content\": \"b\"\n}"], d |-> ("content" :> [k |-> "str", str |-> "b"])]]
      [] s = "\n{\"content\":\"hello\"}" -> [r |-> "ok", v |-> [k |-> "dict", str |-> "{'content': 'hello'}", dumps |-> [raises |-> FALSE, text |-> "{\n  \"content\": \"hello\"\n}"], d |-> ("content" :> [k |-> "str", str |-> "hello"])]]
      [] OTHER -> [r |-> "JSONDecodeError"]

\* bool(re.search(r"user story|as a .+?i want.+?so that|story.*:", s, IGNORECASE))
UserStoryRe(s) ==
    CASE s = ReplyFencedJson -> TRUE
      [] s = ReplyUserStory -> TRUE
      [] s = ReplyOddMetadata -> TRUE
      [] s = ReplyProseThenJson -> TRUE
      [] s = ReplyStoryEmptyObject -> TRUE
      [] OTHER -> FALSE

\* bool(re.search(r"test case|test scenario|given.+?when.+?then|test.*:", s, IGNORECASE))
TestCaseRe(s) ==
    CASE s = ReplyDictContent -> TRUE
      [] s = ReplyTestCase -> TRUE
      [] s = "Test case: login" -> TRUE
      [] s = "a\nTest case: login" -> TRUE
      [] s = "b\nTest case: login" -> TRUE
      [] s = "{\n  \"k\": 1\n}\nTest case: login" -> TRUE
      [] s = "3\nTest case: login" -> TRUE
      [] s = "Test case: login\na" -> TRUE
      [] s = "Test case: login\nb" -> TRUE
      [] s = "Test case: login\n{\n  \"k\": 1\n}" -> TRUE
      [] s = "Test case: login\n3" -> TRUE
      [] s = "Test case: login\nTest case: login" -> TRUE
      [] OTHER -> FALSE

\* bool(re.search(r"development task|dev task|task.*:|implementation|work item.*created|task.*title", s, IGNORECASE))
DevTaskRe(s) ==
    CASE s = ReplyNoContentKey -> TRUE
      [] s = ReplyDevTask -> TRUE
      [] OTHER -> FALSE

\* bool(re.search(r"need.*more.*info|clarification|missing.*detail|please.*provide", s, IGNORECASE))
ClarificationRe(s) ==
    CASE s = ReplyClarify -> TRUE
      [] OTHER -> FALSE

\* bool(re.search(r"save.*azure|create.*work.*item|add.*to.*board", s, IGNORECASE))
SaveConfirmationRe(s) ==
    CASE s = ReplySaveRequest -> TRUE
      [] OTHER -> FALSE


\* list replies of mixed items
RawLists ==
    {PyList(items) : items \in UNION {[1..n -> ListItemPool] : n \in 0..MaxListLen}}

\* every reply shape: text, null, mapping, number, list
RawReplies ==
    {PyStr(s) : s \in ReplyStrings}
        \cup {RawNone, RawNumber, RawTrue, RawDictContent, RawDictDeep, RawDictNoContent,
              RawDictNullContent, RawDictListContent, RawDictUnserializable,
              RawListUnserializable, RawMixedList}
        \cup RawLists

-----------------------------------------------------------------------------
(* Response normalizer: the pipeline *)

MetadataKeys ==
    {"userstory", "testcase", "devtask", "needs_clarification", "needs_save_confirmation"}

\* '\n'.join(string_items)
RECURSIVE JoinLines(_)
JoinLines(string_items) ==
    IF string_items = <<>> THEN ""
    ELSE IF Len(string_items) = 1 THEN string_items[1]
    ELSE string_items[1] \o "\n" \o JoinLines(Tail(string_items))

\* the except branch of _ensure_string_content
ErrorText(message) == "Error processing content: " \o message

\* one pass of the list loop of _ensure_string_content: the string appended for
\* item, or the exception json.dumps raises on it
ItemString(item) ==
    IF item.k = "dict"
    THEN IF "content" \in DOMAIN item.d
         THEN [raises |-> FALSE, text |-> item.d["content"].str]
         ELSE item.dumps
    ELSE [raises |-> FALSE, text |-> item.str]

\* _ensure_string_content
RECURSIVE EnsureStringContent(_)
EnsureStringContent(content) ==
    CASE content.k = "none" -> "No response received"
      [] content.k = "str" -> content.str
      [] content.k = "list" ->
            LET parts == [i \in 1..Len(content.items) |-> ItemString(content.items[i])]
                failed == {i \in 1..Len(parts) : parts[i].raises}
            IN  IF failed # {}
                THEN ErrorText(parts[CHOOSE i \in failed : \A j \in failed : i <= j].text)
                ELSE JoinLines([i \in 1..Len(parts) |-> parts[i].text])
      [] content.k = "dict" ->
            IF "content" \in DOMAIN content.d
            THEN EnsureStringContent(content.d["content"])
            ELSE IF content.dumps.raises
                 THEN ErrorText(content.dumps.text)
                 ELSE content.dumps.text
      [] OTHER -> content.str

\* json.loads(json_str) followed by the isinstance(parsed, dict) test, inside a
\* try that catches the exceptions in `caught`: return the dict, go on to the next
\* strategy, or let the exception out
LoadStep(json_str, caught) ==
    LET parsed == JsonLoads(json_str)
    IN  CASE parsed.r = "ok" ->
                IF parsed.v.k = "dict" THEN [a |-> "return", v |-> parsed.v]
                ELSE [a |-> "continue"]
          [] parsed.r \in caught -> [a |-> "continue"]
          [] OTHER -> [a |-> "raise", exc |-> parsed.r]

\* _try_parse_json: [raised, value] with value the dict found or PyNone, or
\* [raised, exc] when an exception leaves the function
TryParseJson(content) ==
    LET matches == <<SearchJsonFence(content), SearchAnyFence(content),
                     SearchContentObject(content), SearchMetadataObject(content)>>
        patternStep(i) ==
            IF matches[i] = NoMatch THEN [a |-> "continue"]
            ELSE LoadStep(matches[i], {"JSONDecodeError", "AttributeError"})
        decisive == {i \in 1..4 : patternStep(i).a # "continue"}
        whole == IF BraceWrapped(content)
                 THEN LoadStep(content, {"JSONDecodeError"})
                 ELSE [a |-> "continue"]
        fixed_content == FixFences(content)
        fixed == IF BraceWrapped(fixed_content)
                 THEN LoadStep(fixed_content, {"JSONDecodeError"})
                 ELSE [a |-> "continue"]
        outcome ==
            IF decisive # {}
            THEN patternStep(CHOOSE i \in decisive : \A j \in decisive : i <= j)
            ELSE IF whole.a # "continue" THEN whole
            ELSE fixed
    IN  CASE outcome.a = "return" -> [raised |-> FALSE, value |-> outcome.v]
          [] outcome.a = "raise" -> [raised |-> TRUE, exc |-> outcome.exc]
          [] OTHER -> [raised |-> FALSE, value |-> PyNone]

\* metadata.setdefault(key, False)
SetDefault(metadata, key) ==
    IF key \in DOMAIN metadata THEN metadata ELSE (key :> PyFalse) @@ metadata

\* _fallback_content_analysis on a string (its except branch needs a failing
\* re.search or str.lower, which a string does not give)
FallbackContentAnalysisMutant(content) ==
    ("content" :> PyStr(content))
        @@ ("metadata" :>
               [k |-> "dict",
                d |-> [key \in MetadataKeys |->
                          PyBool(\/ UserStoryRe(content)
                                 \/ TestCaseRe(content)
                                 \/ DevTaskRe(content)
                                 \/ ClarificationRe(content)
                                 \/ SaveConfirmationRe(content))]])
FallbackContentAnalysis(content) ==
    ("content" :> PyStr(content))
        @@ ("metadata" :>
               [k |-> "dict",
                d |-> ("userstory" :> PyBool(UserStoryRe(content)))
                        @@ ("testcase" :> PyBool(TestCaseRe(content)))
                        @@ ("devtask" :> PyBool(DevTaskRe(content)))
                        @@ ("needs_clarification" :> PyBool(ClarificationRe(content)))
                        @@ ("needs_save_confirmation" :> PyBool(SaveConfirmationRe(content)))])

\* _validate_and_normalize_json on the dict's key -> value function
ValidateAndNormalizeJsonMutant(parsed_json, fallback_content) ==
    LET withContent ==
            IF "content" \notin DOMAIN parsed_json
            THEN ("content" :> PyStr(fallback_content)) @@ parsed_json
            ELSE ("content" :> PyStr(EnsureStringContent(parsed_json["content"])))
                     @@ parsed_json
    IN  ("metadata" :> [k |-> "dict", d |-> [key \in MetadataKeys |-> PyFalse]])
            @@ withContent
ValidateAndNormalizeJson(parsed_json, fallback_content) ==
    LET withContent ==
            IF "content" \notin DOMAIN parsed_json
            THEN ("content" :> PyStr(fallback_content)) @@ parsed_json
            ELSE ("content" :> PyStr(EnsureStringContent(parsed_json["content"])))
                     @@ parsed_json
        given == IF "metadata" \in DOMAIN withContent
                 THEN withContent["metadata"]
                 ELSE PyNone
        metadata == IF given.k = "dict" THEN given.d ELSE <<>>
        defaulted ==
            SetDefault(SetDefault(SetDefault(SetDefault(SetDefault(metadata,
                "userstory"), "testcase"), "devtask"), "needs_clarification"),
                "needs_save_confirmation")
    IN  ("metadata" :> [k |-> "dict", d |-> defaulted]) @@ withContent

\* _parse_response: [raised |-> FALSE, value |-> envelope], the envelope a function
\* from its keys to their values, or [raised |-> TRUE, exc |-> the exception]
ParseResponse(content) ==
    LET processed_content == EnsureStringContent(content)
        parsed_json == TryParseJson(processed_content)
    IN  IF parsed_json.raised THEN [raised |-> TRUE, exc |-> parsed_json.exc]
        ELSE IF parsed_json.value.k = "dict" /\ DOMAIN parsed_json.value.d # {}
             THEN [raised |-> FALSE,
                   value |-> ValidateAndNormalizeJson(parsed_json.value.d, processed_content)]
             ELSE [raised |-> FALSE, value |-> FallbackContentAnalysis(processed_content)]

-----------------------------------------------------------------------------
(* Session manager: the handlers *)

\* queries a caller submits
Queries == {"Create a user story for login"}

\* queries the callers of SpecChat submit
ChatQueries == {"Create a user story for login", "Add test cases for it"}

\* replies of the model call (response.content is text)
ModelReplies == {ReplyFencedJson, ReplyUserStory, ReplyBigInt}

NotCalled == [called |-> FALSE]

\* The outcomes of a backend call: it succeeds or fails when it is made, and a
\* call that is not made has the one outcome.
Outcomes(made) == IF made THEN BOOLEAN ELSE {TRUE}

Service ==
    [kernel |-> kernel, chat_storage |-> chat_storage, conversation |-> conversation,
     current_session_id |-> current_session_id]

\* max(sessions, key=last_modified) over the listing, which is sorted newest first
MostRecent(sessions) == Head(sessions)

\* _load_most_recent_session with a ready storage handle, starting from the
\* seeded conversation conv and session id sid: the conversation and session id
\* it leaves.  listOk, loadOk: whether the listing and the download succeed.
LoadMostRecentSessionMutant(st, conv, sid, listOk, loadOk) ==
    LET keep == [conversation |-> conv, current_session_id |-> sid]
    IN  IF ~listOk THEN keep
        ELSE IF ListChatSessions(st) = <<>> THEN keep
        ELSE LET blob_name == MostRecent(ListChatSessions(st))
                 session_id == DeriveSessionId(blob_name)
                 chat_data == st.blobs[blob_name]
             IN  IF ~loadOk
                 THEN [conversation |-> conv, current_session_id |-> session_id]
                 ELSE [conversation |-> Replay(chat_data.chat_history),
                       current_session_id |-> session_id]
LoadMostRecentSession(st, conv, sid, listOk, loadOk) ==
    LET keep == [conversation |-> conv, current_session_id |-> sid]
    IN  IF ~listOk THEN keep
        ELSE IF ListChatSessions(st) = <<>> THEN keep
        ELSE LET blob_name == MostRecent(ListChatSessions(st))
                 session_id == DeriveSessionId(blob_name)
                 chat_data == st.blobs[blob_name]
                 loaded_conversation == Replay(chat_data.chat_history)
             IN  IF ~loadOk
                 THEN [conversation |-> conv, current_session_id |-> session_id]
                 ELSE IF chat_data.chat_history # <<>> /\ loaded_conversation # <<>>
                      THEN [conversation |-> loaded_conversation,
                            current_session_id |-> session_id]
                      ELSE [conversation |-> conv, current_session_id |-> session_id]

\* initialize() on service state svc: returns at once when the kernel is set;
\* otherwise seeds the conversation, sets up the storage handle (storageOk: the
\* connection string is configured and the container reachable) and restores
\* the most recent session.  InitializeMutant is initialize() without the
\* early return, AssistantMessageMutant the append of the normalized content.
InitializeMutant(svc, st, storageOk, listOk, loadOk) ==
    LET seeded == FreshConversation(SysPromptInit)
        restored == LoadMostRecentSession(st, seeded, svc.current_session_id,
                                          listOk, loadOk)
    IN  IF svc.chat_storage # None
        THEN [svc EXCEPT !.kernel = TRUE, !.conversation = seeded]
        ELSE IF ~storageOk
        THEN [kernel |-> TRUE, chat_storage |-> None, conversation |-> seeded,
              current_session_id |-> svc.current_session_id]
        ELSE [kernel |-> TRUE, chat_storage |-> Ready,
              conversation |-> restored.conversation,
              current_session_id |-> restored.current_session_id]
Initialize(svc, st, storageOk, listOk, loadOk) ==
    IF svc.kernel THEN svc
    ELSE LET seeded == FreshConversation(SysPromptInit)
             restored == LoadMostRecentSession(st, seeded, svc.current_session_id,
                                               listOk, loadOk)
         IN  IF svc.chat_storage # None
             THEN [svc EXCEPT !.kernel = TRUE, !.conversation = seeded]
             ELSE IF ~storageOk
             THEN [kernel |-> TRUE, chat_storage |-> None, conversation |-> seeded,
                   current_session_id |-> svc.current_session_id]
             ELSE [kernel |-> TRUE, chat_storage |-> Ready,
                   conversation |-> restored.conversation,
                   current_session_id |-> restored.current_session_id]

SetService(svc) ==
    /\ kernel' = svc.kernel
    /\ chat_storage' = svc.chat_storage
    /\ conversation' = svc.conversation
    /\ current_session_id' = svc.current_session_id

SetStore(st) ==
    /\ blobs' = st.blobs
    /\ recency' = st.recency

\* A call of initialize(): the lifespan startup, or any later call.
InitializeCall ==
    \E storageOk \in Outcomes(~kernel) :
    \E listOk \in Outcomes(~kernel /\ storageOk) :
    \E loadOk \in Outcomes(~kernel /\ storageOk /\ listOk /\ recency # <<>>) :
        /\ SetService(Initialize(Service, Store, storageOk, listOk, loadOk))
        /\ last' = [op |-> "initialize", first |-> ~kernel,
                    storage |-> storageOk,
                    backend |-> storageOk /\ listOk /\ loadOk]
        /\ UNCHANGED <<blobs, recency, pending, normVars, queries>>

\* process_query up to the await of the model call: initialize(), append the
\* user message, first checkpoint (a failure is logged and dropped).
ProcessQueryBegin(texts, maxQueries, maxPending) ==
    \E query \in texts, storageOk \in Outcomes(~kernel) :
    \E listOk \in Outcomes(~kernel /\ storageOk) :
    \E loadOk \in Outcomes(~kernel /\ storageOk /\ listOk /\ recency # <<>>),
       saveOk \in Outcomes(IF kernel THEN chat_storage # None ELSE storageOk) :
        LET svc == Initialize(Service, Store, storageOk, listOk, loadOk)
            conv == Append(svc.conversation, Msg("user", query))
            saved == SaveChatHistory(Store, svc.chat_storage, conv,
                                     svc.current_session_id, saveOk)
        IN  /\ Len(pending) < maxPending
            /\ queries < maxQueries
            /\ queries' = queries + 1
            /\ SetService([svc EXCEPT !.conversation = conv])
            /\ SetStore(saved.store)
            /\ pending' = Append(pending, query)
            /\ last' = [op |-> "process_query.start", checkpoint |-> saved.ok]
            /\ UNCHANGED normVars

ProcessQueryStart == ProcessQueryBegin(Queries, MaxQueries, MaxPending)

\* self.conversation.add_assistant_message(response_content)
AssistantMessageMutant(response_content) ==
    LET parsed_response == ParseResponse(PyStr(response_content))
    IN  IF parsed_response.raised THEN Msg("assistant", response_content)
        ELSE Msg("assistant", parsed_response.value["content"].str)
AssistantMessage(response_content) == Msg("assistant", response_content)

RemoveAt(seq, i) == SubSeq(seq, 1, i - 1) \o SubSeq(seq, i + 1, Len(seq))

\* process_query from the model's reply to its return: stringify the reply,
\* append it as the assistant message, second checkpoint (a failure is logged
\* and dropped), then _parse_response, whose envelope is returned and whose
\* exception leaves process_query.
ProcessQueryFinish ==
    \E i \in 1..Len(pending), reply \in ModelReplies,
       saveOk \in Outcomes(chat_storage # None) :
        LET response_content == EnsureStringContent(PyStr(reply))
            conv == Append(conversation, AssistantMessage(response_content))
            saved == SaveChatHistory(Store, chat_storage, conv, current_session_id, saveOk)
            parsed_response == ParseResponse(PyStr(response_content))
        IN  /\ conversation' = conv
            /\ SetStore(saved.store)
            /\ pending' = RemoveAt(pending, i)
            /\ last' = [op |-> "process_query", query |-> pending[i], reply |-> reply,
                        checkpoint |-> saved.ok, outcome |-> parsed_response]
            /\ UNCHANGED <<kernel, chat_storage, current_session_id, normVars, queries>>

\* The model call raises: the exception leaves process_query; the user message
\* stays in the transcript.
ProcessQueryModelError ==
    \E i \in 1..Len(pending) :
        /\ pending' = RemoveAt(pending, i)
        /\ last' = [op |-> "process_query", query |-> pending[i],
                    outcome |-> [raised |-> TRUE, exc |-> "model call"]]
        /\ UNCHANGED <<kernel, chat_storage, conversation, current_session_id,
                       blobs, recency, normVars, queries>>

\* if self.has_user_messages: await self.save_chat_history(), the first
\* statement of create_new_session and of switch_session
SavePreviousMutant(st, storage, conv, session_id, backendOk) ==
    [ok |-> TRUE, store |-> st]
SavePrevious(st, storage, conv, session_id, backendOk) ==
    IF HasUserMessages(conv)
    THEN SaveChatHistory(st, storage, conv, session_id, backendOk)
    ELSE [ok |-> TRUE, store |-> st]

\* create_new_session: the new session is saved at once; a failure is logged
\* and dropped
SaveNewSessionMutant(st, storage, conv, session_id, backendOk) ==
    [ok |-> storage # None /\ backendOk, store |-> st]
SaveNewSession(st, storage, conv, session_id, backendOk) ==
    SaveChatHistory(st, storage, conv, session_id, backendOk)

\* create_new_session: the exception of the save of the previous transcript
\* is logged and raised again; the one of the immediate save is caught
CreateRaisesMutant(previous, immediate) == ~previous.ok \/ ~immediate.ok
CreateRaises(previous, immediate) == ~previous.ok

\* create_new_session(session_name) for a name of the set names
CreateNewSessionWith(names) ==
    \E name \in names,
       save1Ok \in Outcomes(chat_storage # None /\ HasUserMessages(conversation)) :
    \E save2Ok \in Outcomes(chat_storage # None /\ save1Ok) :
        LET session_name == IF name = NoName THEN DefaultSessionName ELSE name
            previous == SavePrevious(Store, chat_storage, conversation,
                                     current_session_id, save1Ok)
            session_id == Sanitize(session_name)
            conv == FreshConversation(SysPromptCreate)
            immediate == SaveNewSession(previous.store, chat_storage, conv,
                                        session_id, save2Ok)
        IN  /\ kernel
            /\ IF CreateRaises(previous, immediate)
               THEN /\ last' = [op |-> "create_new_session", raised |-> TRUE]
                    /\ UNCHANGED <<conversation, current_session_id, blobs, recency>>
               ELSE /\ conversation' = conv
                    /\ current_session_id' = session_id
                    /\ SetStore(immediate.store)
                    /\ last' = [op |-> "create_new_session", raised |-> FALSE,
                                session_name |-> session_name,
                                result |-> session_id, checkpoint |-> immediate.ok]
            /\ UNCHANGED <<kernel, chat_storage, pending, normVars, queries>>

CreateNewSession == CreateNewSessionWith(SessionNames)

\* the first listed session whose blob name contains session_id, or <<>>
FindSession(sessions, session_id) ==
    LET hits == {i \in 1..Len(sessions) : Contains(session_id, sessions[i])}
    IN  IF hits = {} THEN <<>>
        ELSE sessions[CHOOSE i \in hits : \A j \in hits : i <= j]

\* switch_session, no listed blob name contains session_id: the implicit create
SwitchNotFoundMutant(svc, session_id) == [result |-> FALSE, svc |-> svc]
SwitchNotFound(svc, session_id) ==
    [result |-> TRUE,
     svc |-> [svc EXCEPT !.current_session_id = session_id,
                         !.conversation = FreshConversation(SysPromptSwitch)]]

\* switch_session, the chosen snapshot's document chat_data was loaded: replay
SwitchLoadedMutant(svc, chat_data, session_id) ==
    IF Replay(chat_data.chat_history) = <<>>
    THEN [result |-> FALSE, svc |-> svc]
    ELSE [result |-> TRUE,
          svc |-> [svc EXCEPT !.conversation = Replay(chat_data.chat_history),
                              !.current_session_id = session_id]]
SwitchLoaded(svc, chat_data, session_id) ==
    [result |-> TRUE,
     svc |-> [svc EXCEPT !.conversation = Replay(chat_data.chat_history),
                         !.current_session_id = session_id]]

\* switch_session, a storage call raised (or the load found nothing): the
\* except branch, and the return False after the load
SwitchFailedMutant(svc) ==
    [result |-> FALSE, svc |-> [svc EXCEPT !.conversation = <<>>]]
SwitchFailed(svc) == [result |-> FALSE, svc |-> svc]

\* switch_session(session_id); an exception of a storage call is caught and
\* answered with False
SwitchSession ==
    \E session_id \in SwitchIds,
       saveOk \in Outcomes(chat_storage # None /\ HasUserMessages(conversation)) :
    \E listOk \in Outcomes(chat_storage # None /\ saveOk) :
    \E loadOk \in Outcomes(chat_storage # None /\ saveOk /\ listOk
                               /\ FindSession(ListChatSessions(
                                      SavePrevious(Store, chat_storage, conversation,
                                                   current_session_id, saveOk).store),
                                      session_id) # <<>>) :
        LET current == SavePrevious(Store, chat_storage, conversation,
                                    current_session_id, saveOk)
            listed == chat_storage # None /\ listOk
            latest_blob == FindSession(ListChatSessions(current.store), session_id)
            failed == SwitchFailed(Service)
            outcome ==
                CASE ~current.ok -> failed
                  [] current.ok /\ ~listed -> failed
                  [] current.ok /\ listed /\ latest_blob = <<>> ->
                        SwitchNotFound(Service, session_id)
                  [] current.ok /\ listed /\ latest_blob # <<>> /\ ~loadOk -> failed
                  [] OTHER ->
                        SwitchLoaded(Service, current.store.blobs[latest_blob],
                                     session_id)
        IN  /\ kernel
            /\ SetService(outcome.svc)
            /\ SetStore(current.store)
            /\ last' = [op |-> "switch_session", session_id |-> session_id,
                        result |-> outcome.result,
                        backend |-> chat_storage # None /\ saveOk /\ listOk /\ loadOk]
            /\ UNCHANGED <<pending, normVars, queries>>

\* POST /api/save-chat: saves only when there is a non-system message
SaveChatEndpoint ==
    \E saveOk \in Outcomes(chat_storage # None /\ HasUserMessages(conversation)) :
        LET saved == SaveChatHistory(Store, chat_storage, conversation,
                                     current_session_id, saveOk)
        IN  /\ kernel
            /\ IF ~HasUserMessages(conversation)
               THEN /\ last' = [op |-> "save_chat", success |-> TRUE, saved |-> FALSE]
                    /\ UNCHANGED <<blobs, recency>>
               ELSE /\ last' = [op |-> "save_chat", success |-> saved.ok, saved |-> saved.ok]
                    /\ SetStore(saved.store)
            /\ UNCHANGED <<kernel, chat_storage, conversation, current_session_id,
                           pending, normVars, queries>>

\* blob names a caller asks to delete: the stored ones and one that is not stored
DeleteTargets == DOMAIN blobs \cup {BlobName(Nonexistent)}

\* ChatStorageService.delete_chat_session: True and the blob removed, or False
\* when the backend answers ResourceNotFoundError
DeleteBlobMutant(st, blob_name) ==
    [found |-> TRUE,
     store |-> [blobs |-> [b \in DOMAIN st.blobs \ {blob_name} |-> st.blobs[b]],
                recency |-> RemoveName(st.recency, blob_name)]]
DeleteBlob(st, blob_name) ==
    IF blob_name \notin DOMAIN st.blobs
    THEN [found |-> FALSE, store |-> st]
    ELSE [found |-> TRUE,
          store |-> [blobs |-> [b \in DOMAIN st.blobs \ {blob_name} |-> st.blobs[b]],
                     recency |-> RemoveName(st.recency, blob_name)]]

\* ChatStorageService.load_chat_history: the document, or None when the backend
\* answers ResourceNotFoundError
LoadBlob(st, blob_name) ==
    IF blob_name \notin DOMAIN st.blobs
    THEN [found |-> FALSE]
    ELSE [found |-> TRUE, chat_document |-> st.blobs[blob_name]]

\* what an endpoint of app.py answers: the result, HTTPException(404) for a
\* falsy result, HTTPException(500) for any other exception
Answer(raised, found) ==
    IF raised THEN "500" ELSE IF found THEN "200" ELSE "404"

\* DELETE /api/chat-sessions/{blob_name}: agent.delete_chat_session raises
\* without a storage handle (the callers of the model meet a backend that
\* answers these by-key and listing requests).  last.stored: whether the
\* container held blob_name when the request arrived.
DeleteChatSession ==
    \E blob_name \in DeleteTargets :
        LET raised == chat_storage = None
            deleted == DeleteBlob(Store, blob_name)
        IN  /\ kernel
            /\ SetStore(IF raised THEN Store ELSE deleted.store)
            /\ last' = [op |-> "delete_chat_session",
                        stored |-> blob_name \in DOMAIN blobs,
                        status |-> Answer(raised, deleted.found)]
            /\ UNCHANGED <<kernel, chat_storage, conversation, current_session_id,
                           pending, normVars, queries>>

\* GET /api/chat-sessions/{blob_name}: agent.load_chat_history raises without a
\* storage handle
GetChatSession ==
    \E blob_name \in DeleteTargets :
        LET raised == chat_storage = None
            chat_data == LoadBlob(Store, blob_name)
        IN  /\ kernel
            /\ last' = [op |-> "get_chat_session",
                        stored |-> blob_name \in DOMAIN blobs,
                        status |-> Answer(raised, chat_data.found)]
            /\ UNCHANGED <<kernel, chat_storage, conversation, current_session_id,
                           blobs, recency, pending, normVars, queries>>

\* GET /api/chat-sessions: agent.get_chat_sessions raises without a storage
\* handle
GetChatSessions ==
    /\ kernel
    /\ last' = [op |-> "get_chat_sessions",
                status |-> Answer(chat_storage = None, TRUE)]
    /\ UNCHANGED <<kernel, chat_storage, conversation, current_session_id,
                   blobs, recency, pending, normVars, queries>>

\* what GET /api/sessions/current reads off the service
CurrentSession(svc) ==
    [session_id |-> svc.current_session_id,
     message_count |-> Len(svc.conversation),
     has_user_messages |-> HasUserMessages(svc.conversation)]

\* GET /api/sessions/current
GetCurrentSessionMutant ==
    /\ kernel
    /\ last' = [op |-> "get_current_session", answer |-> CurrentSession(Service)]
    /\ conversation' = FreshConversation(SysPromptInit)
    /\ UNCHANGED <<kernel, chat_storage, current_session_id,
                   blobs, recency, pending, normVars, queries>>
GetCurrentSession ==
    /\ kernel
    /\ last' = [op |-> "get_current_session", answer |-> CurrentSession(Service)]
    /\ UNCHANGED <<kernel, chat_storage, conversation, current_session_id,
                   blobs, recency, pending, normVars, queries>>

\* The process ends and a new one constructs its AgentService: __init__ again;
\* the blob container outlives the process.
Restart ==
    /\ kernel
    /\ kernel' = FALSE
    /\ chat_storage' = None
    /\ conversation' = <<>>
    /\ current_session_id' = MainSession
    /\ pending' = <<>>
    /\ last' = [op |-> "__init__"]
    /\ UNCHANGED <<blobs, recency, normVars, queries>>

\* AgentService.__init__, an empty container, no normalizer call
Init ==
    /\ kernel = FALSE
    /\ chat_storage = None
    /\ conversation = <<>>
    /\ current_session_id = MainSession
    /\ blobs = <<>>
    /\ recency = <<>>
    /\ pending = <<>>
    /\ last = [op |-> "__init__"]
    /\ normIn = PyNone
    /\ queries = 0
    /\ normOut = NotCalled

Next ==
    \/ InitializeCall
    \/ ProcessQueryStart
    \/ ProcessQueryFinish
    \/ ProcessQueryModelError
    \/ CreateNewSession
    \/ SwitchSession
    \/ SaveChatEndpoint
    \/ DeleteChatSession
    \/ GetChatSession
    \/ GetChatSessions
    \/ GetCurrentSession
    \/ Restart

Spec == Init /\ [][Next]_vars

-----------------------------------------------------------------------------
(* The chat endpoint taken alone: POST /api/chat requests, each an async
   handler on the one event loop, which runs another request's handler
   whenever one awaits *)

\* POST /api/chat: agent.process_query(request.query) up to the model call
ChatRequest == ProcessQueryBegin(ChatQueries, MaxChatQueries, MaxInFlight)

NextChat ==
    \/ InitializeCall
    \/ ChatRequest
    \/ ProcessQueryFinish
    \/ ProcessQueryModelError

SpecChat == Init /\ [][NextChat]_vars

-----------------------------------------------------------------------------
(* Session creation taken alone, over more session names *)

\* POST /api/sessions/new
CreateNamedSession == CreateNewSessionWith(MoreSessionNames)

NextNames ==
    \/ InitializeCall
    \/ ProcessQueryStart
    \/ ProcessQueryFinish
    \/ CreateNamedSession

SpecNames == Init /\ [][NextNames]_vars

-----------------------------------------------------------------------------
(* The normalizer called on its own *)

InitNorm ==
    /\ kernel = FALSE
    /\ chat_storage = None
    /\ conversation = <<>>
    /\ current_session_id = MainSession
    /\ blobs = <<>>
    /\ recency = <<>>
    /\ pending = <<>>
    /\ last = [op |-> "__init__"]
    /\ normIn \in RawReplies
    /\ normOut = NotCalled
    /\ queries = 0

\* _parse_response(normIn)
ParseResponseCall ==
    /\ ~normOut.called
    /\ normOut' = [called |-> TRUE, outcome |-> ParseResponse(normIn)]
    /\ UNCHANGED <<normIn, sessionVars>>

\* the caller takes the next reply
NextReply ==
    /\ normOut.called
    /\ normIn' \in RawReplies
    /\ normOut' = NotCalled
    /\ UNCHANGED sessionVars

NextNorm == ParseResponseCall \/ NextReply

SpecNorm == InitNorm /\ [][NextNorm]_vars

-----------------------------------------------------------------------------
(* Properties of the session manager, checked under Spec *)

\* the step just taken returned from process_query with the model's reply in hand
ModelCallSucceeded(l) == l.op = "process_query" /\ "reply" \in DOMAIN l

\* C1: a stored snapshot, once written, is never overwritten or removed by any
\* operation other than an explicit delete; a save only adds a new snapshot.
C1_SnapshotsNeverOverwritten ==
    [][last'.op # "delete_chat_session" =>
          \A b \in DOMAIN blobs : b \in DOMAIN blobs' /\ blobs'[b] = blobs[b]]_vars

\* C2: whenever create_new_session returns while the active transcript has a
\* non-system message, persistence is enabled and no query is in flight, the
\* store afterwards holds a snapshot whose message sequence is the replaced
\* transcript, whatever the session name (also one that sanitizes to the
\* current session id).
C2_ReplacedTranscriptKept ==
    [][(/\ last'.op = "create_new_session"
        /\ ~last'.raised
        /\ chat_storage # None
        /\ pending = <<>>
        /\ HasUserMessages(conversation))
       => \E b \in DOMAIN blobs' : blobs'[b].chat_history = ChatData(conversation)]_vars

\* C3: in every state reachable after initialize(), between complete calls (no
\* query in flight), the active transcript begins with a system message and
\* holds exactly one system message.
C3_OneLeadingSystemMessage ==
    (kernel /\ pending = <<>>) =>
        /\ conversation # <<>>
        /\ conversation[1].role = "system"
        /\ Cardinality({i \in 1..Len(conversation) : conversation[i].role = "system"}) = 1

\* the snapshot switch_session loaded in the step just taken, <<>> when none
SwitchedTo(names, session_id) == FindSession(names, session_id)

\* C4: replaying a stored snapshot gives back the saved transcript: after
\* switch_session loads a snapshot the active transcript has the snapshot's
\* ordered sequence of (role, content) pairs.
C4_ReplayRoundTrip ==
    [][(/\ last'.op = "switch_session"
        /\ last'.result
        /\ pending = <<>>
        /\ SwitchedTo(recency', current_session_id') # <<>>)
       => ChatData(conversation') =
              blobs'[SwitchedTo(recency', current_session_id')].chat_history]_vars

\* C5: when the store holds a snapshot as initialize() first runs (and the
\* storage calls succeed), afterwards the active transcript is the message
\* sequence of the most recently modified snapshot.
C5_StartupRestoresMostRecent ==
    [][(/\ last'.op = "initialize"
        /\ last'.first
        /\ last'.backend
        /\ recency # <<>>)
       => ChatData(conversation') = blobs[MostRecent(recency)].chat_history]_vars

\* C6: initialize() is idempotent: a call on an initialized service (also the
\* one process_query makes first) leaves the active transcript, the current
\* session id and the persistence handle as they are; process_query then only
\* appends its user message.
C6_InitializeIdempotent ==
    [][/\ (last'.op = "initialize" /\ kernel) =>
             /\ conversation' = conversation
             /\ current_session_id' = current_session_id
             /\ chat_storage' = chat_storage
       /\ (last'.op = "process_query.start" /\ kernel) =>
             /\ Len(conversation') = Len(conversation) + 1
             /\ SubSeq(conversation', 1, Len(conversation)) = conversation
             /\ conversation'[Len(conversation')].role = "user"
             /\ current_session_id' = current_session_id
             /\ chat_storage' = chat_storage]_vars

\* a repeated initialize() has run on a service whose transcript holds a query
C6_Witness ==
    /\ last.op = "initialize"
    /\ ~last.first
    /\ chat_storage = Ready
    /\ HasUserMessages(conversation)

\* C7: whenever the model call succeeds process_query returns the envelope,
\* whether or not the checkpoints succeeded.
C7_EnvelopeReturnedWhenModelSucceeds ==
    ModelCallSucceeded(last) => ~last.outcome.raised

NoContentExtracted(response_content) ==
    LET parsed_json == TryParseJson(response_content)
    IN  \/ parsed_json.raised
        \/ parsed_json.value.k # "dict"
        \/ "content" \notin DOMAIN parsed_json.value.d

C11_PreviousSavedBeforeReplaced ==
    [][(/\ last'.op \in {"create_new_session", "switch_session"}
        /\ HasUserMessages(conversation)
        /\ (conversation' # conversation \/ current_session_id' # current_session_id))
       => /\ BlobName(current_session_id) \in DOMAIN blobs'
          /\ (last'.op = "switch_session" \/ current_session_id' # current_session_id)
                => blobs'[BlobName(current_session_id)].chat_history =
                       ChatData(conversation)]_vars

\* create_new_session has replaced a transcript holding a query, whose snapshot
\* is stored under the old session id
C11_Witness ==
    /\ last.op = "create_new_session"
    /\ ~last.raised
    /\ \E b \in DOMAIN blobs :
          /\ b # BlobName(current_session_id)
          /\ \E i \in 1..Len(blobs[b].chat_history) :
                blobs[b].chat_history[i].role = RoleStr("user")

\* some stored snapshot's key contains session_id
Matched(names, session_id) == \E b \in names : Contains(session_id, b)

\* C12: switch_session(id), when the storage calls succeed and no stored
\* snapshot's key contains id, sets the active session id to id, makes the
\* active transcript a fresh one holding only the system message, and returns
\* True.
C12_SwitchToUnknownCreates ==
    [][(/\ last'.op = "switch_session"
        /\ last'.backend
        /\ ~Matched(DOMAIN blobs', last'.session_id))
       => /\ last'.result
          /\ current_session_id' = last'.session_id
          /\ Len(conversation') = 1
          /\ conversation'[1].role = "system"]_vars

\* switch_session("Chat") has run against a store with no matching snapshot
C12_Witness ==
    /\ last.op = "switch_session"
    /\ last.backend
    /\ last.session_id = Chat
    /\ ~Matched(DOMAIN blobs, Chat)
    /\ current_session_id = Chat
    /\ conversation = FreshConversation(SysPromptSwitch)

\* C13: switch_session returns False only when a storage operation (the save
\* of the current transcript, the listing, the load of the chosen snapshot)
\* fails, a disabled persistence counting as a failure; in every other case,
\* with or without a matching snapshot, it returns True.
C13_SwitchFalseOnlyOnBackendFailure ==
    [][last'.op = "switch_session" => (last'.result <=> last'.backend)]_vars

\* switch_session has returned False on a failing storage call, the storage
\* handle being set up
C13_Witness ==
    /\ last.op = "switch_session"
    /\ chat_storage = Ready
    /\ ~last.backend
    /\ ~last.result

\* C14: when the storage calls succeed, no query is in flight and some stored
\* snapshot's key contains id, switch_session(id) returns True and the active transcript is the
\* messages of the most recently saved such snapshot, in their stored order.
C14_SwitchReplaysMostRecentMatch ==
    [][(/\ last'.op = "switch_session"
        /\ last'.backend
        /\ pending = <<>>
        /\ Matched(DOMAIN blobs', last'.session_id))
       => LET latest == FindSession(recency', last'.session_id)
              stored == blobs'[latest].chat_history
          IN  /\ last'.result
              /\ Len(conversation') = Len(stored)
              /\ \A i \in 1..Len(stored) :
                    conversation'[i].content = stored[i].content]_vars

C16_StorageUnavailable ==
    [][/\ (last'.op = "initialize" /\ last'.first /\ ~last'.storage) =>
             /\ kernel'
             /\ chat_storage' = None
             /\ conversation' = FreshConversation(SysPromptInit)
       /\ (kernel /\ chat_storage = None) =>
             /\ chat_storage' = None
             /\ blobs' = blobs
             /\ recency' = recency
             /\ (last'.op = "save_chat" /\ HasUserMessages(conversation)) =>
                    ~last'.success
             /\ last'.op \in {"get_chat_sessions", "get_chat_session"} =>
                    last'.status = "500"
             /\ last'.op = "process_query.start" => ~last'.checkpoint
             /\ ModelCallSucceeded(last') => ~last'.checkpoint
             /\ last'.op = "switch_session" => ~last'.result
             /\ (last'.op = "create_new_session" /\ ~last'.raised) =>
                    ~last'.checkpoint]_vars

\* a manual save of a transcript holding a query has failed on a service whose
\* persistence is disabled
C16_Witness ==
    /\ kernel
    /\ chat_storage = None
    /\ last.op = "save_chat"
    /\ ~last.success
    /\ HasUserMessages(conversation)

\* C17: when the startup restore finds no snapshot, or the snapshot it chose
\* replays to no message, the active transcript after initialize() is the
\* freshly seeded one, a single system message; whatever it found, the
\* transcript is the seeded one or the whole replay, never a part of it.
C17_RestoreKeepsSeededTranscript ==
    [][(last'.op = "initialize" /\ last'.first /\ last'.storage)
       => LET seeded == FreshConversation(SysPromptInit)
              replayed == IF recency = <<>> THEN <<>>
                          ELSE Replay(blobs[MostRecent(recency)].chat_history)
          IN  /\ replayed = <<>> => conversation' = seeded
              /\ conversation' \in {seeded, replayed}]_vars

\* the first initialize() has loaded the most recent snapshot, a stored
\* conversation with a query, and kept the seeded transcript
C17_Witness ==
    /\ last.op = "initialize"
    /\ last.first
    /\ last.backend
    /\ recency # <<>>
    /\ Len(blobs[MostRecent(recency)].chat_history) > 1
    /\ conversation = FreshConversation(SysPromptInit)

\* C20: loading or deleting a snapshot by a key the store does not hold, the
\* storage call itself succeeding, is answered as not found (404: the load
\* yields no document, the delete yields False) and changes neither the store
\* nor the active transcript and session id.
C20_MissingKeyNotFound ==
    [][(/\ last'.op \in {"get_chat_session", "delete_chat_session"}
        /\ ~last'.stored
        /\ chat_storage # None
        /\ last'.status # "500")
       => /\ last'.status = "404"
          /\ UNCHANGED <<blobs, recency, conversation, current_session_id>>]_vars

\* a delete by a key that is not stored was answered 404 while the store holds
\* other snapshots
C20_Witness ==
    /\ last.op = "delete_chat_session"
    /\ ~last.stored
    /\ last.status = "404"
    /\ recency # <<>>

\* the calls that only read the service or only touch the store
ReadingOps ==
    {"get_chat_sessions", "get_current_session", "get_chat_session",
     "delete_chat_session", "save_chat"}

\* the calls that own the active transcript and session id (__init__ is the
\* construction of the service)
OwningOps ==
    {"__init__", "initialize", "process_query.start", "process_query",
     "create_new_session", "switch_session"}

\* C21: listing the sessions, reading the current session, loading a snapshot
\* by key, deleting a snapshot by key and a manual save leave the active
\* transcript and the active session id as they are; a step that changes either
\* is a step of initialize, process_query, create_new_session or switch_session.
C21_ReadsLeaveSessionAlone ==
    [][/\ last'.op \in ReadingOps =>
             UNCHANGED <<conversation, current_session_id>>
       /\ (conversation' # conversation \/ current_session_id' # current_session_id)
             => last'.op \in OwningOps]_vars

\* the current session was read while it holds a query and the store a snapshot
C21_Witness ==
    /\ last.op = "get_current_session"
    /\ last.answer.message_count > 1
    /\ HasUserMessages(conversation)
    /\ recency # <<>>

\* C22: after the first initialize() has restored the most recent snapshot
\* (the storage calls succeeding), the active session id is the session id
\* that snapshot was saved under, also for an id that contains underscores, so
\* that the next checkpoint goes to the restored snapshot's key.
C22_RestoredIdIsSavedId ==
    [][(/\ last'.op = "initialize"
        /\ last'.first
        /\ last'.backend
        /\ recency # <<>>)
       => /\ current_session_id' = blobs[MostRecent(recency)].session_id
          /\ BlobName(current_session_id') = MostRecent(recency)]_vars

\* C23: after switch_session(id) has returned True by loading a stored
\* snapshot of key K, the active session id is the session id of K, so that
\* the next checkpoint writes to K, also when id is only a part of K's id.
C23_SwitchKeepsSnapshotId ==
    [][(/\ last'.op = "switch_session"
        /\ last'.result
        /\ SwitchedTo(recency', last'.session_id) # <<>>)
       => LET K == SwitchedTo(recency', last'.session_id)
          IN  /\ current_session_id' = blobs'[K].session_id
              /\ BlobName(current_session_id') = K]_vars

\* C24: also when create_new_session or switch_session ran while the query
\* was suspended on the model call, the assistant reply is appended to the
\* transcript that holds the query's user message, and the snapshot the second
\* checkpoint writes is the snapshot of that transcript.
C24_ReplyJoinsItsQuery ==
    [][ModelCallSucceeded(last')
       => /\ \E j \in 1..Len(conversation) :
                conversation[j] = Msg("user", last'.query)
          /\ last'.checkpoint =>
                \E j \in 1..Len(blobs'[BlobName(current_session_id')].chat_history) :
                    blobs'[BlobName(current_session_id')].chat_history[j] =
                        [role |-> RoleStr("user"), content |-> last'.query]]_vars

\* C25: whenever switch_session returns False the active transcript and the
\* active session id are what they were before the call: a failed switch
\* leaves no emptied or partly replayed transcript.
C25_FailedSwitchChangesNothing ==
    [][(last'.op = "switch_session" /\ ~last'.result)
       => UNCHANGED <<conversation, current_session_id>>]_vars

\* switch_session has returned False on a failing load of a matching snapshot,
\* the active transcript holding a query
C25_Witness ==
    /\ last.op = "switch_session"
    /\ ~last.result
    /\ chat_storage = Ready
    /\ HasUserMessages(conversation)
    /\ Matched(DOMAIN blobs, last.session_id)
    /\ current_session_id # last.session_id

\* C26: create_new_session raises exactly when the save of a transcript with
\* a non-system message fails (as it must when persistence is disabled), and
\* then leaves the active transcript and session id as they are; when it does
\* not raise the previous transcript is stored, and the new session is active
\* whether or not its immediate checkpoint succeeded.
C26_CreateReportsFailedSave ==
    [][last'.op = "create_new_session"
       => /\ (HasUserMessages(conversation) /\ chat_storage = None) => last'.raised
          /\ ~HasUserMessages(conversation) => ~last'.raised
          /\ last'.raised => UNCHANGED <<conversation, current_session_id, blobs, recency>>
          /\ (~last'.raised /\ HasUserMessages(conversation)) =>
                BlobName(current_session_id) \in DOMAIN blobs'
          /\ ~last'.raised =>
                /\ conversation' = FreshConversation(SysPromptCreate)
                /\ current_session_id' = last'.result
                /\ ~last'.checkpoint =>
                      (blobs' = blobs \/ HasUserMessages(conversation))]_vars

\* create_new_session has raised on a service whose transcript holds a query
\* and whose storage answers no save
C26_Witness ==
    /\ last.op = "create_new_session"
    /\ last.raised
    /\ kernel
    /\ HasUserMessages(conversation)
    /\ pending = <<>>

\* the transcript holds a message that is not a system message
NonSystemMessage(conv) ==
    \E i \in 1..Len(conv) : conv[i].role \in {"user", "assistant"}

\* C29: in every reachable state has_user_messages is true exactly when the
\* active transcript holds a message whose role is not system: false for a
\* missing transcript and for a freshly seeded one, true once process_query
\* has appended its user message; the current-session answer and the gate of
\* the manual save go by it.
C29_HasUserMessagesIffNonSystem ==
    /\ HasUserMessages(conversation) <=> NonSystemMessage(conversation)
    /\ conversation = <<>> => ~HasUserMessages(conversation)
    /\ (Len(conversation) = 1 /\ conversation[1].role = "system") =>
           ~HasUserMessages(conversation)
    /\ last.op = "process_query.start" => HasUserMessages(conversation)
    /\ last.op = "get_current_session" =>
           last.answer.has_user_messages = NonSystemMessage(conversation)
    /\ (last.op = "save_chat" /\ last.saved) => NonSystemMessage(conversation)

\* process_query has just appended its user message to the seeded transcript
C29_Witness ==
    /\ last.op = "process_query.start"
    /\ Len(conversation) = 2
    /\ conversation[1].role = "system"
    /\ conversation[2].role = "user"
    /\ HasUserMessages(conversation)

\* the step just taken left process_query on a failed model call
ModelCallFailed(l) ==
    l.op = "process_query" /\ "reply" \notin DOMAIN l

\* C27: on an initialized service a process_query whose model call succeeds
\* appends exactly two messages to the end of the active transcript, the user
\* query and right after it the assistant reply, and changes no earlier
\* message; one whose model call fails has appended exactly its user message,
\* which stays.
C27_QueryAppendsTwoMessages ==
    [][/\ (last'.op = "process_query.start" /\ kernel) =>
             conversation' = Append(conversation,
                                    Msg("user", pending'[Len(pending')]))
       /\ ModelCallSucceeded(last') =>
             /\ conversation # <<>>
             /\ conversation[Len(conversation)] = Msg("user", last'.query)
             /\ conversation' =
                    Append(conversation,
                           Msg("assistant", EnsureStringContent(PyStr(last'.reply))))
       /\ ModelCallFailed(last') =>
             /\ conversation # <<>>
             /\ conversation[Len(conversation)] = Msg("user", last'.query)
             /\ conversation' = conversation]_vars

-----------------------------------------------------------------------------
(* Properties of concurrent chat requests, checked under SpecChat *)

-----------------------------------------------------------------------------
(* Properties of session names, checked under SpecNames *)

\* C19: create_new_session(name) sets the active session id to name with every
\* space and every '/' replaced by '_' ("My Chat" gives "My_Chat") and returns
\* that id.
C19_SessionIdFromName ==
    [][(last'.op = "create_new_session" /\ ~last'.raised)
       => LET name == last'.session_name
              id == last'.result
          IN  /\ current_session_id' = id
              /\ Len(id) = Len(name)
              /\ \A i \in 1..Len(name) :
                    id[i] = IF name[i] \in {" ", "/"} THEN "_" ELSE name[i]
              /\ name = MyChat => id = My_Chat]_vars

\* create_new_session("My Chat") has returned "My_Chat"
C19_Witness ==
    /\ last.op = "create_new_session"
    /\ ~last.raised
    /\ last.session_name = MyChat
    /\ last.result = My_Chat
    /\ current_session_id = My_Chat

-----------------------------------------------------------------------------
(* Properties of the normalizer, checked under SpecNorm *)

\* what _try_parse_json extracted from the stringified reply of the call
ExtractedObject == TryParseJson(EnsureStringContent(normIn))

\* envelope is the object obj normalized, processed_content being the full
\* reply text: content stringified, metadata a mapping that keeps the object's
\* flags and has False for each of the five keys the object does not give
NormalizedObject(envelope, obj, processed_content) ==
    LET given == IF "metadata" \in DOMAIN obj /\ obj["metadata"].k = "dict"
                 THEN obj["metadata"].d
                 ELSE <<>>
    IN  /\ envelope["content"] =
               PyStr(IF "content" \in DOMAIN obj
                     THEN EnsureStringContent(obj["content"])
                     ELSE processed_content)
        /\ envelope["metadata"].k = "dict"
        /\ DOMAIN envelope["metadata"].d = MetadataKeys \cup DOMAIN given
        /\ \A key \in DOMAIN given : envelope["metadata"].d[key] = given[key]
        /\ \A key \in MetadataKeys \ DOMAIN given :
               envelope["metadata"].d[key] = PyFalse

\* the envelope has userstory true and the four other flags false
OnlyUserStory(envelope) ==
    /\ envelope["metadata"].d["userstory"] = PyTrue
    /\ \A key \in MetadataKeys \ {"userstory"} :
           envelope["metadata"].d[key] = PyFalse

C30_FallbackFlagsByPattern ==
    (normOut.called /\ ~normOut.outcome.raised /\ ExtractedObject.value.k # "dict")
        => LET content == EnsureStringContent(normIn)
               envelope == normOut.outcome.value
               metadata == envelope["metadata"].d
           IN  /\ DOMAIN envelope = {"content", "metadata"}
               /\ envelope["content"] = PyStr(content)
               /\ DOMAIN metadata = MetadataKeys
               /\ metadata["userstory"] = PyBool(UserStoryRe(content))
               /\ metadata["testcase"] = PyBool(TestCaseRe(content))
               /\ metadata["devtask"] = PyBool(DevTaskRe(content))
               /\ metadata["needs_clarification"] = PyBool(ClarificationRe(content))
               /\ metadata["needs_save_confirmation"] =
                      PyBool(SaveConfirmationRe(content))
               /\ content = ReplyUserStory => OnlyUserStory(envelope)

\* the user-story sentence, no JSON in it, was classified
C30_Witness ==
    /\ normOut.called
    /\ normIn = PyStr(ReplyUserStory)
    /\ ~normOut.outcome.raised
    /\ ExtractedObject.value = PyNone
    /\ normOut.outcome.value["content"] = PyStr(ReplyUserStory)
    /\ normOut.outcome.value["metadata"].d["userstory"] = PyTrue

\* C9: for every reply shape the envelope's metadata has exactly the five
\* flag keys, each a boolean.
C9_MetadataFiveBooleans ==
    (normOut.called /\ ~normOut.outcome.raised) =>
        LET metadata == normOut.outcome.value["metadata"]
        IN  /\ metadata.k = "dict"
            /\ DOMAIN metadata.d = MetadataKeys
            /\ \A key \in MetadataKeys : metadata.d[key].k = "bool"

\* C10: the normalizer is total: for every reply it returns an envelope with a
\* string content and a metadata mapping, and never raises.
C10_NormalizerTotal ==
    normOut.called =>
        /\ ~normOut.outcome.raised
        /\ {"content", "metadata"} \subseteq DOMAIN normOut.outcome.value
        /\ normOut.outcome.value["content"].k = "str"
        /\ normOut.outcome.value["metadata"].k = "dict"

=============================================================================
